---------------------------- MODULE Spec2Model ----------------------------
(***************************************************************************)
(* A model of "Mi Clase de Flauta": the staff-position helper of the       *)
(* sheet-music view, the AI analysis service with the MusicTutor component *)
(* that calls it, and the playback controls of App.                        *)
(*                                                                         *)
(* Fractions are kept exact by scaling: staff steps are counted in half    *)
(* steps, the playback rate in tenths, durations in hundredths of a second.*)
(***************************************************************************)
EXTENDS Integers, Sequences, FiniteSets, TLC

VARIABLES
    \* ---- SheetMusic: one note being positioned on the staff
    midiNote,       \* the pitch handed to getNoteY
    noteDrawn,      \* TRUE once the note has been rendered
    noteY,          \* the Y position computed for it
    \* ---- SheetMusic: two notes of the recorder range on the same staff
    pitchA,         \* the pitch of one note
    pitchB,         \* the pitch of another
    pairDrawn,      \* TRUE once both have been rendered
    yA,             \* the Y position computed for pitchA
    yB,             \* the Y position computed for pitchB
    \* ---- SheetMusic and PianoRoll: the highlight of the playing note
    playhead,       \* the currentTime prop, in eighths of a second
    highlightDrawn, \* TRUE once both views have rendered
    activeSheet,    \* the notes SheetMusic draws as active
    activeRoll,     \* the notes PianoRoll draws as playing
    \* ---- geminiService / MusicTutor
    apiKey,         \* process.env.API_KEY is set
    propMidi,       \* MusicTutor's midiData prop (NoMidi when null)
    analysis,       \* MusicTutor state
    loading,        \* MusicTutor state
    error,          \* MusicTutor state
    tutorPc,        \* position of handleAnalyze: "idle", "awaiting", "done"
    svc,            \* the promise analyzeMidiForStudents returned
    request,        \* the generateContent request in flight, if any
    callRequests,   \* generateContent requests issued by the current call
    calls,          \* how often analyzeMidiForStudents has been called
    promptsSent,    \* the prompts sent so far
    \* ---- App
    midiData,       \* TRUE once loadUserSong has set the song
    isPlaying,      \* React state
    playbackRate,   \* React state, in tenths (10 is 1x)
    currentTime,    \* React state
    isReady,        \* React state
    partRef,        \* TRUE when partRef.current holds a Tone.Part
    transport,      \* Tone.Transport: state, seconds, bpm, last command
    pending,        \* togglePlay calls suspended at await Tone.start()
    toneStartCalls, \* how often Tone.start() has been called
    setupCalls,     \* how often setupSynthesizers has run
    lastOp          \* the handler or callback that ran last

noteVars  == <<midiNote, noteDrawn, noteY>>
tutorVars == <<apiKey, propMidi, analysis, loading, error, tutorPc, svc,
               request, callRequests, calls, promptsSent>>
appVars   == <<midiData, isPlaying, playbackRate, currentTime, isReady,
               partRef, transport, pending, toneStartCalls, setupCalls, lastOp>>
staffVars == <<pitchA, pitchB, pairDrawn, yA, yB>>
viewVars  == <<playhead, highlightDrawn, activeSheet, activeRoll>>
vars      == <<noteVars, staffVars, viewVars, tutorVars, appVars>>

notTutorVars == <<noteVars, staffVars, viewVars, appVars>>
notNoteVars  == <<staffVars, viewVars, tutorVars, appVars>>
notAppVars   == <<noteVars, staffVars, viewVars, tutorVars>>
notStaffVars == <<noteVars, viewVars, tutorVars, appVars>>
notViewVars  == <<noteVars, staffVars, tutorVars, appVars>>

(***************************************************************************)
(* Bounds of the model.                                                    *)
(***************************************************************************)
MinPitch == 40
MaxPitch == 110
MaxNotes == 2
MaxPending == 2
MaxSeconds == 3
MaxPlayhead == 140
MaxCalls == 2

(***************************************************************************)
(* SheetMusic.getNoteY                                                     *)
(***************************************************************************)
STAFF_LINE_HEIGHT == 10
STAFF_TOP_Y == 60
referenceNote == 77

\* The manual map of the recorder range, in half steps (-4.5 is -9).
map2 ==
    (86 :> -9) @@ (84 :> -7) @@ (83 :> -6) @@ (81 :> -4) @@ (79 :> -2) @@
    (77 :> 0)  @@ (76 :> 1)  @@ (74 :> 2)  @@ (72 :> 3)  @@ (71 :> 4)  @@
    (69 :> 5)  @@ (67 :> 6)  @@ (65 :> 7)  @@ (64 :> 8)  @@ (62 :> 9)  @@
    (60 :> 10) @@ (59 :> 11)

\* visualStep, in half steps: map[midiNote], or (77 - midiNote) * 0.5.
visualStepFlat2(m) == referenceNote - m

visualStep2(m) ==
    IF m \in DOMAIN map2 THEN map2[m] ELSE referenceNote - m

\* STAFF_TOP_Y + visualStep * STAFF_LINE_HEIGHT (exact: the height is even).
getNoteY(m) == STAFF_TOP_Y + (visualStep2(m) * STAFF_LINE_HEIGHT) \div 2

Pitches == MinPitch .. MaxPitch

InitNote ==
    /\ midiNote \in Pitches
    /\ noteDrawn = FALSE
    /\ noteY = 0

\* notes.map: the note is positioned by getNoteY(note.midi).
RenderNote ==
    /\ ~noteDrawn
    /\ noteY' = getNoteY(midiNote)
    /\ noteDrawn' = TRUE
    /\ UNCHANGED midiNote
    /\ UNCHANGED notNoteVars

\* The recorder range the manual map is written for: B3 (59) to D6 (86).
RecorderLow == 59
RecorderHigh == 86
RecorderRange == RecorderLow .. RecorderHigh

InitStaff ==
    /\ pitchA \in RecorderRange
    /\ pitchB \in RecorderRange
    /\ pairDrawn = FALSE
    /\ yA = 0
    /\ yB = 0

\* notes.map: each of the two notes is positioned by getNoteY(note.midi).
RenderPair ==
    /\ ~pairDrawn
    /\ yA' = getNoteY(pitchA)
    /\ yB' = getNoteY(pitchB)
    /\ pairDrawn' = TRUE
    /\ UNCHANGED <<pitchA, pitchB>>
    /\ UNCHANGED notStaffVars


(***************************************************************************)
(* types.ts: the MidiData handed to the tutor.  A track is the sequence of *)
(* its notes' names; the duration is in hundredths of a second.            *)
(***************************************************************************)
NoteNames == {"C4", "C#4", "D4", "E4"}

NoteSeqs == UNION {[1..n -> NoteNames] : n \in 0..MaxNotes}

TempoLists == {<<>>, <<0>>, <<90>>, <<90, 60>>}

Durations == {1600, 275}

NoMidi == [present |-> FALSE, tracks |-> <<>>, tempos |-> <<>>, duration |-> 0]

\* No track, one track, or a second track after it.
TrackLists ==
    {<<>>} \cup {<<ns>> : ns \in NoteSeqs}
           \cup {<<ns, <<"E4", "C4">>>> : ns \in NoteSeqs}

MidiSamples ==
    {[present |-> TRUE, tracks |-> t, tempos |-> b, duration |-> d] :
        t \in TrackLists, b \in TempoLists, d \in Durations}

(***************************************************************************)
(* JSON values, as far as the analysis result needs them.                  *)
(***************************************************************************)
JUndefined == [type |-> "undefined", str |-> "", items |-> <<>>]
JString(s) == [type |-> "string", str |-> s, items |-> <<>>]
JNumber(s) == [type |-> "number", str |-> s, items |-> <<>>]
JArray(xs) == [type |-> "array", str |-> "", items |-> xs]

JObject(d, t, desc) ==
    [type |-> "object", difficulty |-> d, tips |-> t, description |-> desc]
JNull ==
    [type |-> "null", difficulty |-> JUndefined, tips |-> JUndefined,
     description |-> JUndefined]
JTopString ==
    [type |-> "string", difficulty |-> JUndefined, tips |-> JUndefined,
     description |-> JUndefined]

\* AnalysisResult of types.ts: {difficulty: string, tips: string[], description: string}
IsAnalysisResult(v) ==
    /\ v.type = "object"
    /\ v.difficulty.type = "string"
    /\ v.tips.type = "array"
    /\ \A i \in DOMAIN v.tips.items : v.tips.items[i].type = "string"
    /\ v.description.type = "string"

\* The payload of the catch block.
FALLBACK ==
    JObject(JString("Desconocida"),
            JArray(<<JString("Practica despacio al principio."),
                     JString("Asegúrate de tapar bien los agujeros."),
                     JString("Disfruta la música.")>>),
            JString("No pudimos conectar con el profesor virtual, ¡pero tú puedes hacerlo!"))

(***************************************************************************)
(* What generateContent may answer: the request rejects, or it resolves    *)
(* with a response whose text is undefined, empty, or one of these texts.  *)
(***************************************************************************)
TextFull       == "{\"difficulty\":\"Fácil\",\"tips\":[\"a\",\"b\",\"c\"],\"description\":\"d\"}"
TextNoTips     == "{\"difficulty\":\"Intermedio\",\"description\":\"d\"}"
TextEmptyObj   == "{}"
TextWrongTypes == "{\"difficulty\":3,\"tips\":\"a\",\"description\":\"d\"}"
TextNull       == "null"
TextString     == "\"Avanzado\""
TextTruncated  == "{\"difficulty\":\"Fácil\",\"tips\":[\"a\","
TextHtml       == "<html>502 Bad Gateway</html>"

Texts == {TextFull, TextNoTips, TextEmptyObj, TextWrongTypes, TextNull,
          TextString, TextTruncated, TextHtml, ""}

Responses ==
    {[kind |-> "rejects", text |-> ""], [kind |-> "no_text", text |-> ""]}
    \cup {[kind |-> "text", text |-> t] : t \in Texts}

\* JSON.parse on these texts: the value, or a SyntaxError.
JSONparse(text) ==
    CASE text = TextFull ->
           [ok |-> TRUE,
            value |-> JObject(JString("Fácil"),
                              JArray(<<JString("a"), JString("b"), JString("c")>>),
                              JString("d"))]
      [] text = TextNoTips ->
           [ok |-> TRUE,
            value |-> JObject(JString("Intermedio"), JUndefined, JString("d"))]
      [] text = TextEmptyObj ->
           [ok |-> TRUE, value |-> JObject(JUndefined, JUndefined, JUndefined)]
      [] text = TextWrongTypes ->
           [ok |-> TRUE,
            value |-> JObject(JNumber("3"), JString("a"), JString("d"))]
      [] text = TextNull -> [ok |-> TRUE, value |-> JNull]
      [] text = TextString -> [ok |-> TRUE, value |-> JTopString]
      [] OTHER -> [ok |-> FALSE, value |-> JNull]

(***************************************************************************)
(* geminiService.analyzeMidiForStudents: the prompt.                       *)
(***************************************************************************)
\* UTF-16 code units of the note names, which Array.prototype.sort compares.
CodeUnits(name) ==
    CASE name = "C4"  -> <<67, 52>>
      [] name = "C#4" -> <<67, 35, 52>>
      [] name = "D4"  -> <<68, 52>>
      [] name = "E4"  -> <<69, 52>>

RECURSIVE SeqLess(_, _)
SeqLess(a, b) ==
    IF b = <<>> THEN FALSE
    ELSE IF a = <<>> THEN TRUE
    ELSE IF Head(a) # Head(b) THEN Head(a) < Head(b)
    ELSE SeqLess(Tail(a), Tail(b))

StringLess(x, y) == SeqLess(CodeUnits(x), CodeUnits(y))

\* Array.from(new Set(notes)): first occurrences, in insertion order.
RECURSIVE SetOrder(_)
SetOrder(ns) ==
    IF ns = <<>> THEN <<>>
    ELSE LET rest == SetOrder(SubSeq(ns, 1, Len(ns) - 1))
             last == ns[Len(ns)]
         IN  IF \E i \in DOMAIN rest : rest[i] = last THEN rest
             ELSE Append(rest, last)

RECURSIVE InsertSorted(_, _)
InsertSorted(xs, x) ==
    IF xs = <<>> THEN <<x>>
    ELSE IF StringLess(x, Head(xs)) THEN <<x>> \o xs
    ELSE <<Head(xs)>> \o InsertSorted(Tail(xs), x)

\* A variant that leaves the names in the order of the Set.
SortOmitted(xs) == xs

\* .sort() with the default comparison
RECURSIVE Sort(_)
Sort(xs) ==
    IF xs = <<>> THEN <<>>
    ELSE InsertSorted(Sort(SubSeq(xs, 1, Len(xs) - 1)), xs[Len(xs)])

\* midiData.header.tempos[0]?.bpm || 120
DefaultTempo == 120
promptTempo(midi) ==
    IF midi.tempos # <<>> /\ midi.tempos[1] # 0 THEN midi.tempos[1]
    ELSE DefaultTempo

\* Number.prototype.toFixed(2), on a duration in hundredths of a second
toFixed2(d) == [int |-> d \div 100, frac |-> d % 100]

buildPrompt(midi) ==
    [uniqueNotes |-> Sort(SetOrder(midi.tracks[1])),
     tempo       |-> promptTempo(midi),
     duration    |-> toFixed2(midi.duration)]

NoRequest == [sent |-> FALSE, uniqueNotes |-> <<>>, tempo |-> 0,
              duration |-> [int |-> 0, frac |-> 0]]

requestOf(prompt) ==
    [sent |-> TRUE, uniqueNotes |-> prompt.uniqueNotes, tempo |-> prompt.tempo,
     duration |-> prompt.duration]

(***************************************************************************)
(* geminiService.analyzeMidiForStudents: the call.                         *)
(* svc is the returned promise: its state, the value it resolved to, and   *)
(* what failed inside the call.                                            *)
(***************************************************************************)
SvcIdle == [state |-> "idle", value |-> JNull, failure |-> "none"]
SvcPending == [state |-> "pending", value |-> JNull, failure |-> "none"]

\* A variant of the catch block that rethrows after logging.
analyzeCatchRethrows(failure) ==
    [state |-> "rejected", value |-> JNull, failure |-> failure]

\* catch (error) { console.error(...); return { ...fallback... } }
analyzeCatch(failure) ==
    [state |-> "fulfilled", value |-> FALLBACK, failure |-> failure]

\* A variant that checks track 0 only after the request has gone out.
analyzeBeginChecksTrackLate(key, midi) ==
    IF ~key THEN [failure |-> "api_key_missing", request |-> NoRequest]
    ELSE IF midi.tracks = <<>>
         THEN [failure |-> "no_track",
               request |-> [NoRequest EXCEPT !.sent = TRUE]]
    ELSE [failure |-> "none", request |-> requestOf(buildPrompt(midi))]

\* The call up to its await: initGenAI, the track check, the prompt, the
\* generateContent request.
analyzeBegin(key, midi) ==
    IF ~key THEN [failure |-> "api_key_missing", request |-> NoRequest]
    ELSE IF midi.tracks = <<>>
         THEN [failure |-> "no_track", request |-> NoRequest]
    ELSE [failure |-> "none", request |-> requestOf(buildPrompt(midi))]

\* A variant whose JSON.parse stands outside the try block.
analyzeSettleParsesOutsideTry(r) ==
    IF r.kind = "rejects" THEN analyzeCatch("request_rejected")
    ELSE IF r.kind = "no_text" \/ r.text = "" THEN analyzeCatch("empty_text")
    ELSE IF ~JSONparse(r.text).ok THEN analyzeCatchRethrows("bad_json")
    ELSE [state |-> "fulfilled", value |-> JSONparse(r.text).value,
          failure |-> "none"]

\* The call from its await on: response.text, the empty check, JSON.parse.
analyzeSettle(r) ==
    IF r.kind = "rejects" THEN analyzeCatch("request_rejected")
    ELSE IF r.kind = "no_text" \/ r.text = "" THEN analyzeCatch("empty_text")
    ELSE IF ~JSONparse(r.text).ok THEN analyzeCatch("bad_json")
    ELSE [state |-> "fulfilled", value |-> JSONparse(r.text).value,
          failure |-> "none"]

(***************************************************************************)
(* MusicTutor                                                              *)
(***************************************************************************)
NoError == "<null>"
ErrorMessage == "Hubo un error al consultar al profesor virtual."

InitTutor ==
    /\ apiKey \in BOOLEAN
    /\ propMidi \in MidiSamples \cup {NoMidi}
    /\ analysis = JNull
    /\ loading = FALSE
    /\ error = NoError
    /\ tutorPc = "idle"
    /\ svc = SvcIdle
    /\ request = NoRequest
    /\ callRequests = 0
    /\ calls = 0
    /\ promptsSent = {}

\* The "Analizar Canción" button is rendered.
AnalyzeButtonShown ==
    propMidi.present /\ analysis = JNull /\ ~loading

\* handleAnalyze up to its await, with the service call it makes.
handleAnalyze ==
    /\ AnalyzeButtonShown
    /\ tutorPc # "awaiting"
    /\ calls < MaxCalls
    /\ calls' = calls + 1
    /\ loading' = TRUE
    /\ error' = NoError
    /\ tutorPc' = "awaiting"
    /\ LET b == analyzeBegin(apiKey, propMidi)
       IN  /\ request' = b.request
           /\ callRequests' = IF b.request.sent THEN 1 ELSE 0
           /\ promptsSent' = IF b.request.sent
                             THEN promptsSent \cup {b.request}
                             ELSE promptsSent
           /\ svc' = IF b.failure # "none" THEN analyzeCatch(b.failure)
                     ELSE SvcPending
    /\ UNCHANGED <<apiKey, propMidi, analysis>>
    /\ UNCHANGED notTutorVars

\* generateContent settles and the suspended call runs to its return.
generateContentSettles ==
    /\ svc.state = "pending"
    /\ request.sent
    /\ \E r \in Responses : svc' = analyzeSettle(r)
    /\ request' = NoRequest
    /\ UNCHANGED <<apiKey, propMidi, analysis, loading, error, tutorPc,
                   callRequests, calls, promptsSent>>
    /\ UNCHANGED notTutorVars

\* handleAnalyze from its await on: try / catch / finally.
handleAnalyzeResume ==
    /\ tutorPc = "awaiting"
    /\ svc.state \in {"fulfilled", "rejected"}
    /\ IF svc.state = "fulfilled"
       THEN analysis' = svc.value /\ UNCHANGED error
       ELSE error' = ErrorMessage /\ UNCHANGED analysis
    /\ loading' = FALSE
    /\ tutorPc' = "done"
    /\ UNCHANGED <<apiKey, propMidi, svc, request, callRequests, calls,
                   promptsSent>>
    /\ UNCHANGED notTutorVars

NextTutor ==
    \/ handleAnalyze
    \/ generateContentSettles
    \/ handleAnalyzeResume


(***************************************************************************)
(* App: the playback controls.                                             *)
(* Handlers and the interval callback read the state of the last render;   *)
(* a togglePlay call suspended at its await keeps the isPlaying, isReady   *)
(* and midiData it was invoked with.                                       *)
(***************************************************************************)
songBpm == 120
ToneDefaultBpm == 120

\* The positions of the speed slider: min 0.5, max 1.5, step 0.1.
Rates == 5 .. 15

\* Tone.Transport's start, pause and stop, as the handlers use them.
transportStart(t) ==
    [t EXCEPT !.state = "started", !.lastCommand = "start"]
transportPause(t) ==
    [t EXCEPT !.state = IF @ = "started" THEN "paused" ELSE @,
              !.lastCommand = "pause"]
transportStop(t) ==
    [t EXCEPT !.state = "stopped", !.seconds = 0, !.lastCommand = "stop"]

\* setupSynthesizers, on the transport: stop, cancel, bpm.value = tempos[0].bpm
setupSynthesizers(t) ==
    [transportStop(t) EXCEPT !.bpm = songBpm]

InitApp ==
    /\ midiData = FALSE
    /\ isPlaying = FALSE
    /\ playbackRate = 10
    /\ currentTime = 0
    /\ isReady = FALSE
    /\ partRef = FALSE
    /\ transport = [state |-> "stopped", seconds |-> 0, bpm |-> ToneDefaultBpm,
                    lastCommand |-> "none"]
    /\ pending = <<>>
    /\ toneStartCalls = 0
    /\ setupCalls = 0
    /\ lastOp = "mount"

\* The mount effect.
loadUserSong ==
    /\ ~midiData
    /\ midiData' = TRUE
    /\ lastOp' = "loadUserSong"
    /\ UNCHANGED <<isPlaying, playbackRate, currentTime, isReady, partRef,
                   transport, pending, toneStartCalls, setupCalls>>
    /\ UNCHANGED notAppVars

\* The controls are rendered only once midiData is set.
ControlsShown == midiData

\* A variant that toggles the current state: setIsPlaying(p => !p).
toggledFromCurrent(captured, current) == ~current

\* setIsPlaying(!isPlaying), isPlaying being the value the call closed over.
toggled(captured, current) == ~captured

\* togglePlay after await initializeAudio(): c is what the call closed over,
\* t and part are the transport and partRef.current as initializeAudio left them.
togglePlayRest(c, t, part, setups) ==
    LET needSetup == ~part /\ c.midiData
        t1 == IF needSetup THEN setupSynthesizers(t) ELSE t
    IN  /\ partRef' = (part \/ needSetup)
        /\ setupCalls' = setups + (IF needSetup THEN 1 ELSE 0)
        /\ transport' = IF c.isPlaying THEN transportPause(t1)
                        ELSE transportStart(t1)
        /\ isPlaying' = toggled(c.isPlaying, isPlaying)

\* togglePlay is invoked.  With isReady false it calls Tone.start() and is
\* suspended; otherwise initializeAudio does nothing and the call runs on.
togglePlay ==
    /\ ControlsShown
    /\ LET c == [isPlaying |-> isPlaying, isReady |-> isReady,
                 midiData |-> midiData]
       IN  IF ~c.isReady /\ c.midiData
           THEN /\ Len(pending) < MaxPending
                /\ pending' = Append(pending, c)
                /\ toneStartCalls' = toneStartCalls + 1
                /\ lastOp' = "togglePlay.await"
                /\ UNCHANGED <<isPlaying, isReady, partRef, transport,
                               setupCalls>>
           ELSE /\ togglePlayRest(c, transport, partRef, setupCalls)
                /\ lastOp' = "togglePlay"
                /\ UNCHANGED <<isReady, pending, toneStartCalls>>
    /\ UNCHANGED <<midiData, playbackRate, currentTime>>
    /\ UNCHANGED notAppVars

\* Tone.start() resolves for a suspended call: the rest of initializeAudio
\* (setupSynthesizers, setIsReady) and then the rest of togglePlay.
togglePlayResume ==
    /\ \E i \in DOMAIN pending :
          /\ togglePlayRest(pending[i], setupSynthesizers(transport), TRUE,
                            setupCalls + 1)
          /\ pending' = SubSeq(pending, 1, i - 1)
                        \o SubSeq(pending, i + 1, Len(pending))
    /\ isReady' = TRUE
    /\ lastOp' = "togglePlay"
    /\ UNCHANGED <<midiData, playbackRate, currentTime, toneStartCalls>>
    /\ UNCHANGED notAppVars

\* A variant of handleStop without setCurrentTime(0).
handleStopKeepsTime ==
    /\ ControlsShown
    /\ transport' = transportStop(transport)
    /\ isPlaying' = FALSE
    /\ lastOp' = "handleStop"
    /\ UNCHANGED <<midiData, playbackRate, currentTime, isReady, partRef,
                   pending, toneStartCalls, setupCalls>>
    /\ UNCHANGED notAppVars

handleStop ==
    /\ ControlsShown
    /\ transport' = transportStop(transport)
    /\ isPlaying' = FALSE
    /\ currentTime' = 0
    /\ lastOp' = "handleStop"
    /\ UNCHANGED <<midiData, playbackRate, isReady, partRef, pending,
                   toneStartCalls, setupCalls>>
    /\ UNCHANGED notAppVars

handleSpeedChange ==
    /\ ControlsShown
    /\ \E rate \in Rates :
          /\ playbackRate' = rate
          /\ transport' = IF midiData
                          THEN [transport EXCEPT !.bpm = (songBpm * rate) \div 10]
                          ELSE transport
    /\ lastOp' = "handleSpeedChange"
    /\ UNCHANGED <<midiData, isPlaying, currentTime, isReady, partRef, pending,
                   toneStartCalls, setupCalls>>
    /\ UNCHANGED notAppVars

\* A variant of the interval callback without the isPlaying test.
syncedTimeAlways(playing, time, seconds) == seconds

\* The interval callback: if (isPlaying) setCurrentTime(transport.seconds)
syncedTime(playing, time, seconds) == IF playing THEN seconds ELSE time

tick ==
    /\ currentTime' = syncedTime(isPlaying, currentTime, transport.seconds)
    /\ lastOp' = "tick"
    /\ UNCHANGED <<midiData, isPlaying, playbackRate, isReady, partRef,
                   transport, pending, toneStartCalls, setupCalls>>
    /\ UNCHANGED notAppVars

\* Time passes while the transport runs.
transportAdvances ==
    /\ transport.state = "started"
    /\ transport.seconds < MaxSeconds
    /\ transport' = [transport EXCEPT !.seconds = @ + 1]
    /\ lastOp' = "transportAdvances"
    /\ UNCHANGED <<midiData, isPlaying, playbackRate, currentTime, isReady,
                   partRef, pending, toneStartCalls, setupCalls>>
    /\ UNCHANGED notAppVars

NextApp ==
    \/ loadUserSong
    \/ togglePlay
    \/ togglePlayResume
    \/ handleStop
    \/ handleSpeedChange
    \/ tick
    \/ transportAdvances

(***************************************************************************)
(* App.loadUserSong: the hard-coded melody, and the highlight that         *)
(* SheetMusic and PianoRoll draw for a currentTime.  Beats are counted in  *)
(* half beats, times in eighths of a second.                               *)
(***************************************************************************)
\* const quarter = 60 / bpm, in eighths of a second
quarter == (60 * 8) \div songBpm

\* createNote(name, midi, startBeat, durationBeats), the beats doubled
createNote(name, midi, startBeat2, durationBeats2) ==
    [name |-> name, midi |-> midi,
     time |-> (startBeat2 * quarter) \div 2,
     duration |-> (durationBeats2 * quarter) \div 2]

songNotes ==
    << \* Measure 1
       createNote("E4", 64, 0, 2),  createNote("E4", 64, 2, 2),
       createNote("F4", 65, 4, 2),  createNote("G4", 67, 6, 2),
       \* Measure 2
       createNote("G4", 67, 8, 2),  createNote("F4", 65, 10, 2),
       createNote("E4", 64, 12, 2), createNote("D4", 62, 14, 2),
       \* Measure 3
       createNote("C4", 60, 16, 2), createNote("C4", 60, 18, 2),
       createNote("D4", 62, 20, 2), createNote("E4", 64, 22, 2),
       \* Measure 4
       createNote("E4", 64, 24, 3), createNote("D4", 62, 27, 1),
       createNote("D4", 62, 28, 4),
       \* Measure 5
       createNote("E4", 64, 32, 2), createNote("E4", 64, 34, 2),
       createNote("F4", 65, 36, 2), createNote("G4", 67, 38, 2),
       \* Measure 6
       createNote("G4", 67, 40, 2), createNote("F4", 65, 42, 2),
       createNote("E4", 64, 44, 2), createNote("D4", 62, 46, 2),
       \* Measure 7
       createNote("C4", 60, 48, 2), createNote("C4", 60, 50, 2),
       createNote("D4", 62, 52, 2), createNote("E4", 64, 54, 2),
       \* Measure 8
       createNote("D4", 62, 56, 3), createNote("C4", 60, 59, 1),
       createNote("C4", 60, 60, 4) >>

\* songData: duration 32 * quarter, one track
songData ==
    [tempos |-> <<songBpm>>, duration |-> 32 * quarter, tracks |-> <<songNotes>>]

\* midiData.tracks.flatMap(t => t.notes)
RECURSIVE flatNotes(_)
flatNotes(tracks) ==
    IF tracks = <<>> THEN <<>> ELSE Head(tracks) \o flatNotes(Tail(tracks))

\* .sort((a, b) => a.time - b.time): a stable sort by time
RECURSIVE insertByTime(_, _)
insertByTime(xs, x) ==
    IF xs = <<>> THEN <<x>>
    ELSE IF x.time < Head(xs).time THEN <<x>> \o xs
    ELSE <<Head(xs)>> \o insertByTime(Tail(xs), x)

RECURSIVE sortByTime(_)
sortByTime(xs) ==
    IF xs = <<>> THEN <<>>
    ELSE insertByTime(sortByTime(SubSeq(xs, 1, Len(xs) - 1)), xs[Len(xs)])

\* A variant of the highlight test that includes the note's end.
isActiveInclusive(note, t) ==
    t >= note.time /\ t <= note.time + note.duration

\* SheetMusic: currentTime >= note.time && currentTime < note.time + note.duration
isActive(note, t) ==
    t >= note.time /\ t < note.time + note.duration

\* PianoRoll: the same test
isPlayingNote(note, t) ==
    t >= note.time /\ t < note.time + note.duration

sheetNotes(midi) == sortByTime(flatNotes(midi.tracks))
rollNotes(midi) == flatNotes(midi.tracks)

InitView ==
    /\ playhead \in 0 .. MaxPlayhead
    /\ highlightDrawn = FALSE
    /\ activeSheet = {}
    /\ activeRoll = {}

\* Both views render the song for the current playhead.
RenderHighlight ==
    /\ ~highlightDrawn
    /\ activeSheet' = {i \in DOMAIN sheetNotes(songData) :
                         isActive(sheetNotes(songData)[i], playhead)}
    /\ activeRoll' = {i \in DOMAIN rollNotes(songData) :
                        isPlayingNote(rollNotes(songData)[i], playhead)}
    /\ highlightDrawn' = TRUE
    /\ UNCHANGED playhead
    /\ UNCHANGED notViewVars

(***************************************************************************)
(* Specifications: one per component, the others at rest.                  *)
(***************************************************************************)
NoteIdle == midiNote = referenceNote /\ noteDrawn = FALSE /\ noteY = 0

StaffIdle ==
    /\ pitchA = referenceNote
    /\ pitchB = referenceNote
    /\ pairDrawn = FALSE
    /\ yA = 0
    /\ yB = 0

TutorIdle ==
    /\ apiKey = FALSE
    /\ propMidi = NoMidi
    /\ analysis = JNull
    /\ loading = FALSE
    /\ error = NoError
    /\ tutorPc = "idle"
    /\ svc = SvcIdle
    /\ request = NoRequest
    /\ callRequests = 0
    /\ calls = 0
    /\ promptsSent = {}

ViewIdle ==
    /\ playhead = 0
    /\ highlightDrawn = FALSE
    /\ activeSheet = {}
    /\ activeRoll = {}

Init == InitApp /\ NoteIdle /\ StaffIdle /\ ViewIdle /\ TutorIdle
Next == NextApp
Spec == Init /\ [][Next]_vars

InitTutorSpec == InitTutor /\ NoteIdle /\ StaffIdle /\ ViewIdle /\ InitApp
SpecTutor == InitTutorSpec /\ [][NextTutor]_vars

NextNote == RenderNote
InitNoteSpec == InitNote /\ StaffIdle /\ ViewIdle /\ TutorIdle /\ InitApp
SpecNote == InitNoteSpec /\ [][NextNote]_vars

NextStaff == RenderPair
InitStaffSpec == InitStaff /\ NoteIdle /\ ViewIdle /\ TutorIdle /\ InitApp
SpecStaff == InitStaffSpec /\ [][NextStaff]_vars

NextView == RenderHighlight
InitViewSpec == InitView /\ NoteIdle /\ StaffIdle /\ TutorIdle /\ InitApp
SpecView == InitViewSpec /\ [][NextView]_vars

(***************************************************************************)
(* Properties of analyzeMidiForStudents and MusicTutor (SpecTutor).        *)
(***************************************************************************)
Failures == {"api_key_missing", "no_track", "request_rejected", "empty_text",
             "bad_json"}

\* C1: analyzeMidiForStudents never rejects: whatever fails inside it (API
\* key missing, no track 0, the request rejects, empty response text,
\* unparseable text), the promise resolves, and resolves to the fallback
\* payload: difficulty "Desconocida", the three fixed tips, the fixed message.
C1_NeverRejects ==
    /\ svc.state # "rejected"
    /\ svc.failure \in Failures =>
          /\ svc.state = "fulfilled"
          /\ svc.value.type = "object"
          /\ svc.value.difficulty = JString("Desconocida")
          /\ svc.value.tips =
                JArray(<<JString("Practica despacio al principio."),
                         JString("Asegúrate de tapar bien los agujeros."),
                         JString("Disfruta la música.")>>)
          /\ svc.value.description =
                JString("No pudimos conectar con el profesor virtual, ¡pero tú puedes hacerlo!")

C1_Witness ==
    svc.state = "fulfilled" /\ svc.failure = "bad_json" /\ svc.value = FALLBACK

\* C2: every value analyzeMidiForStudents resolves to has the declared shape
\* {difficulty: string, tips: string[], description: string}, whatever text
\* the AI service answered.
C2_DeclaredShape ==
    svc.state = "fulfilled" => IsAnalysisResult(svc.value)

\* C3: a call issues at most one generateContent request and never sends
\* another after the first has settled; with the API key missing or no
\* track 0 it issues none before returning the fallback.
C3_AtMostOneRequest ==
    /\ callRequests <= 1
    /\ svc.failure \in {"api_key_missing", "no_track"} =>
          callRequests = 0 /\ ~request.sent /\ svc.value = FALLBACK
    /\ svc.state \in {"fulfilled", "rejected"} /\ callRequests = 1 =>
          ~request.sent

C3_Witness ==
    svc.state = "fulfilled" /\ svc.failure = "no_track" /\ callRequests = 0

\* C6 as stated: when the AI analysis fails during handleAnalyze, the
\* component ends with the error message set, loading false and analysis
\* still null.
C6_ErrorBannerOnFailure ==
    tutorPc = "done" /\ svc.failure \in Failures =>
        error = ErrorMessage /\ ~loading /\ analysis = JNull

\* C6 amended: when the AI analysis fails during handleAnalyze, the
\* component ends with analysis set to the fallback payload, loading false
\* and error null: the fallback is shown, the error banner is not.
C6_FallbackOnFailure ==
    tutorPc = "done" /\ svc.failure \in Failures =>
        analysis = FALLBACK /\ ~loading /\ error = NoError

C6_Witness ==
    /\ tutorPc = "done"
    /\ svc.failure = "request_rejected"
    /\ analysis = FALLBACK
    /\ ~loading

\* The order of Array.prototype.sort on the note names (UTF-16 code units).
NameRank(name) ==
    CASE name = "C#4" -> 1
      [] name = "C4"  -> 2
      [] name = "D4"  -> 3
      [] name = "E4"  -> 4

\* midiData reduced to what the prompt is said to depend on.
PromptInputs(midi) ==
    [present  |-> TRUE,
     tracks   |-> <<midi.tracks[1]>>,
     tempos   |-> IF midi.tempos = <<>> THEN <<>> ELSE <<midi.tempos[1]>>,
     duration |-> midi.duration]

\* C13: the prompt is static: it depends only on track 0's note names, the
\* first tempo and the duration; it lists each distinct note name of track 0
\* exactly once, in sorted order; it uses 120 BPM when there is no first
\* tempo or its bpm is 0; and calls with the same midiData send the same
\* prompt.
C13_StaticPrompt ==
    /\ request.sent =>
          LET names == propMidi.tracks[1]
              u     == request.uniqueNotes
          IN  /\ {u[i] : i \in DOMAIN u} = {names[i] : i \in DOMAIN names}
              /\ \A i, j \in DOMAIN u :
                    i < j => NameRank(u[i]) < NameRank(u[j])
              /\ request.tempo =
                    IF propMidi.tempos = <<>> \/ propMidi.tempos[1] = 0
                    THEN 120 ELSE propMidi.tempos[1]
              /\ request = requestOf(buildPrompt(PromptInputs(propMidi)))
    /\ Cardinality(promptsSent) <= 1

\* A second call for a song with a second track, an unsorted track 0 and a
\* first tempo of 0.
C13_Witness ==
    /\ calls = 2
    /\ request.sent
    /\ Len(propMidi.tracks) = 2
    /\ propMidi.tracks[1] = <<"D4", "C#4">>
    /\ request.uniqueNotes = <<"C#4", "D4">>
    /\ propMidi.tempos = <<0>>
    /\ request.tempo = 120

(***************************************************************************)
(* Properties of getNoteY (SpecNote).                                      *)
(***************************************************************************)
TablePitches == {59, 60, 62, 64, 65, 67, 69, 71, 72, 74, 76, 77, 79, 81, 83,
                 84, 86}

\* C4: getNoteY is a lookup table with a linear fallback: for the seventeen
\* pitches of the table it returns STAFF_TOP_Y + table[m] * STAFF_LINE_HEIGHT
\* (F5 = 77 at Y 60, E4 = 64 at Y 100), for every other pitch
\* STAFF_TOP_Y + (77 - m) * 0.5 * STAFF_LINE_HEIGHT.
C4_GetNoteY ==
    noteDrawn =>
        /\ DOMAIN map2 = TablePitches
        /\ midiNote \in TablePitches =>
              2 * (noteY - STAFF_TOP_Y) = map2[midiNote] * STAFF_LINE_HEIGHT
        /\ midiNote \notin TablePitches =>
              2 * (noteY - STAFF_TOP_Y) = (77 - midiNote) * STAFF_LINE_HEIGHT
        /\ midiNote = 77 => noteY = 60
        /\ midiNote = 64 => noteY = 100

C4_Witness == noteDrawn /\ midiNote = 64 /\ noteY = 100

\* C11: getNoteY is order-preserving over the recorder range 59..86: of two
\* pitches a < b, the higher one is never drawn lower on the staff (Y grows
\* downwards), so getNoteY(a) >= getNoteY(b); pitches missing from the
\* table included.  Checked under SpecStaff.
C11_OrderPreserving ==
    (pairDrawn /\ pitchA < pitchB) => yA >= yB

(***************************************************************************)
(* Properties of the highlight over the hard-coded melody (SpecView).      *)
(***************************************************************************)
\* C12: for the hard-coded melody the highlight test marks exactly one note
\* for every currentTime in [0, duration) and none from duration on, the
\* same note in SheetMusic and PianoRoll; the notes are listed in time
\* order, each starts where the one before ends, the first at 0, and the
\* last ends at duration.
C12_OneActiveNote ==
    highlightDrawn =>
        LET notes == songData.tracks[1]
            last  == notes[Len(notes)]
        IN  /\ playhead < songData.duration =>
                  Cardinality(activeSheet) = 1 /\ Cardinality(activeRoll) = 1
            /\ playhead >= songData.duration =>
                  activeSheet = {} /\ activeRoll = {}
            /\ {sheetNotes(songData)[i] : i \in activeSheet}
                  = {notes[i] : i \in activeRoll}
            /\ notes[1].time = 0
            /\ \A i \in 1 .. Len(notes) - 1 :
                  notes[i].time + notes[i].duration = notes[i + 1].time
            /\ \A i \in DOMAIN notes : notes[i].duration > 0
            /\ last.time + last.duration = songData.duration

\* The playhead stands where the half-beat D4 of measure 4 begins.
C12_Witness ==
    highlightDrawn /\ playhead = 54 /\ activeSheet = {14} /\ activeRoll = {14}

(***************************************************************************)
(* Properties of the playback controls (Spec).                             *)
(***************************************************************************)
\* C5: once audio is initialised, the transport BPM is the song's BPM (120)
\* times the playbackRate shown on the slider, whatever the order of
\* togglePlay, handleStop and handleSpeedChange.
C5_TempoFollowsRate ==
    isReady => transport.bpm * 10 = 120 * playbackRate

\* C7: whenever no togglePlay call is suspended at its await, isPlaying is
\* true exactly if the transport's last command was start.
C7_PlayStateAgreement ==
    pending = <<>> => (isPlaying <=> transport.lastCommand = "start")

\* Two overlapping togglePlay calls have both run to their end.
C7_Witness ==
    pending = <<>> /\ toneStartCalls = 2 /\ setupCalls = 2 /\ isPlaying

\* C8: Tone.start() and setupSynthesizers are each executed at most once,
\* over any sequence of togglePlay invocations.
C8_InitialisedOnce ==
    toneStartCalls <= 1 /\ setupCalls <= 1

\* C9: handleStop stops the transport and leaves isPlaying false and
\* currentTime 0, with playbackRate, midiData and isReady unchanged; and
\* currentTime stays 0 as long as the transport has not been started again.
C9_HandleStop ==
    /\ [](lastOp = "handleStop" =>
            transport.state = "stopped" /\ ~isPlaying /\ currentTime = 0)
    /\ [][/\ lastOp' = "handleStop" =>
                /\ playbackRate' = playbackRate
                /\ midiData' = midiData
                /\ isReady' = isReady
          /\ (/\ transport.state = "stopped"
              /\ currentTime = 0
              /\ transport'.state # "started") => currentTime' = 0]_vars

\* handleStop has acted on a session that had been playing at another speed.
C9_Witness ==
    /\ lastOp = "handleStop"
    /\ isReady
    /\ playbackRate # 10
    /\ transport.lastCommand = "stop"
    /\ currentTime = 0

\* C10: a timer tick taken while isPlaying is false leaves currentTime
\* unchanged, and a togglePlay that pauses leaves currentTime (and the
\* transport's position) where it was.
C10_SyncOnlyWhilePlaying ==
    [][/\ (lastOp' = "tick" /\ ~isPlaying) => currentTime' = currentTime
       /\ (lastOp' = "togglePlay" /\ isPlaying /\ ~isPlaying') =>
             /\ currentTime' = currentTime
             /\ transport'.seconds = transport.seconds
             /\ transport'.state = "paused"]_vars

\* A tick after a pause: currentTime is still the last synced position.
C10_Witness ==
    /\ lastOp = "tick"
    /\ ~isPlaying
    /\ transport.state = "paused"
    /\ currentTime > 0
    /\ transport.seconds > currentTime
=============================================================================
